---------------------------- MODULE Spec2Model ----------------------------
(***************************************************************************)
(* Loan Default Dashboard (src/app.py): a Streamlit script.  Every user    *)
(* interaction re-executes the script top to bottom: the four memoized     *)
(* loaders, the st.stop() guard, the sidebar widgets, the row filter, the  *)
(* KPI cards and the four tabs.  The state below is the script's globals,  *)
(* the st.cache_data memo, the files on disk and the elements rendered in  *)
(* the current run.                                                        *)
(*                                                                         *)
(* Numbers.  A pandas float is a record [nan, num, den, err, exp]: NaN, or *)
(* a float64 with its exact value.  loan_amnt is a float column and may    *)
(* carry a fractional part; the other numeric columns hold whole numbers.  *)
(***************************************************************************)
EXTENDS Integers, Sequences, FiniteSets, TLC

\* Largest number of rows of an enumerated Dataset.
MaxRows == 2

----------------------------------------------------------------------------
(* Floats *)

(***************************************************************************)
(* A float64 is NaN or the exact value (num + err / 2^exp) / den, den >= 1 *)
(* and num >= 0.  num/den is the real number the computation aims at and   *)
(* err / (den * 2^exp) the rounding error float64 arithmetic has made on   *)
(* the way: err = 0 when the result is exact.  Every quantity below stays  *)
(* a small integer; 2^exp itself is never formed.                          *)
(***************************************************************************)
NaN == [nan |-> TRUE, num |-> 0, den |-> 1, err |-> 0, exp |-> 0]

\* The float n/d, for n/d a float64 (a column value).
Float(n, d) == [nan |-> FALSE, num |-> n, den |-> d, err |-> 0, exp |-> 0]

\* x >= n and x <= n for a float x and a Python int n; every comparison
\* with NaN is False.
FloatGE(x, n) ==
    /\ ~x.nan
    /\ \/ x.num > n * x.den
       \/ x.num = n * x.den /\ x.err >= 0

FloatLE(x, n) ==
    /\ ~x.nan
    /\ \/ x.num < n * x.den
       \/ x.num = n * x.den /\ x.err <= 0

\* x < y for two column values.
FloatLess(x, y) == x.num * y.den < y.num * x.den

RECURSIVE Pow2(_)
Pow2(k) == IF k = 0 THEN 1 ELSE 2 * Pow2(k - 1)

\* floor(log2(q)) for an integer q >= 1.
RECURSIVE FloorLog2(_)
FloorLog2(q) == IF q < 2 THEN 0 ELSE 1 + FloorLog2(q \div 2)

\* The least j >= 1 with p * 2^j >= n, for 0 < p < n.
RECURSIVE ShiftsToReach(_, _)
ShiftsToReach(p, n) ==
    IF 2 * p >= n THEN 1 ELSE 1 + ShiftsToReach(2 * p, n)

\* The binary exponent of p/n: L with 2^L <= p/n < 2^(L+1), for p > 0.
BinaryExponent(p, n) ==
    IF p >= n THEN FloorLog2(p \div n) ELSE -ShiftsToReach(p, n)

\* (v * 2^k) mod m for m < 2^23, eight doublings at a time.
ShiftMod(v, k, m) ==
    LET shifted[j \in 0..(k \div 8)] ==
            IF j = 0 THEN ((v % m) * Pow2(k % 8)) % m
            ELSE (256 * shifted[j - 1]) % m
    IN  shifted[k \div 8]

\* Number of fraction bits of the float64 nearest to p/n: its 53-bit
\* significand is the rounded p * 2^k / n.
FractionBits(p, n) == 52 - BinaryExponent(p, n)

\* p / n in float64 for Python ints p >= 0, n >= 1: the quotient rounded to
\* a 53-bit significand, ties to even.
FloatDiv(p, n) ==
    IF p = 0 THEN Float(0, n)
    ELSE LET k     == FractionBits(p, n)
             twice == ShiftMod(p, k, 2 * n)
             r     == twice % n
             odd   == (twice \div n) % 2 = 1
             up    == 2 * r > n \/ (2 * r = n /\ odd)
         IN  [nan |-> FALSE, num |-> p, den |-> n,
              err |-> IF r = 0 THEN 0 ELSE IF up THEN n - r ELSE -r,
              exp |-> k]

\* x * 100 in float64, for x = FloatDiv(p, n): the 53-bit significand of x
\* times 100 has 6 or 7 bits too many, which are rounded off, ties to even.
Times100(x) ==
    IF x.nan THEN NaN
    ELSE IF x.num = 0 THEN Float(0, x.den)
    ELSE LET p     == x.num
             n     == x.den
             L     == BinaryExponent(p, n)
             k     == 52 - L
             small == IF L + 7 >= 0
                      THEN 100 * p < Pow2(L + 7) * n
                      ELSE 100 * p * Pow2(-(L + 7)) < n
             s     == IF small THEN 6 ELSE 7
             m     == (ShiftMod(p, k, Pow2(s + 1) * n) \div n
                          + (IF x.err > 0 THEN 1 ELSE 0)) % Pow2(s + 1)
             prod  == (100 * m) % Pow2(s + 1)
             low   == prod % Pow2(s)
             odd   == prod \div Pow2(s) = 1
             up    == low > Pow2(s - 1) \/ (low = Pow2(s - 1) /\ odd)
             cut   == IF low = 0 THEN 0
                      ELSE IF up THEN Pow2(s) - low ELSE -low
         IN  [nan |-> FALSE, num |-> 100 * p, den |-> n,
              err |-> 100 * x.err + n * cut,
              exp |-> k]

\* int(x): truncation toward zero, for a column value x.  int(nan) raises
\* ValueError; callers test x.nan first.
IntOf(x) ==
    IF x.num >= 0 THEN x.num \div x.den ELSE -((-x.num) \div x.den)

\* The float x times scale, rounded to the nearest integer, ties to even:
\* Python's format() rounds the exact value of the float this way.
RoundHalfEven(x, scale) ==
    LET n == scale * x.num
        q == n \div x.den
        r == n % x.den
    IN  IF 2 * r < x.den THEN q
        ELSE IF 2 * r > x.den THEN q + 1
        ELSE IF x.err > 0 THEN q + 1
        ELSE IF x.err < 0 THEN q
        ELSE IF q % 2 = 0 THEN q ELSE q + 1

\* format(x, ".1f"): "nan" for NaN, else x rounded to tenths (the field
\* scaled holds the rendered number times ten).
FormatFixed1(x) ==
    IF x.nan THEN [text |-> "nan", scaled |-> 0]
    ELSE [text |-> "digits", scaled |-> RoundHalfEven(x, 10)]

\* format(x, ",.0f"): "nan" for NaN, else x rounded to a whole number.
FormatFixed0(x) ==
    IF x.nan THEN [text |-> "nan", scaled |-> 0]
    ELSE [text |-> "digits", scaled |-> RoundHalfEven(x, 1)]

----------------------------------------------------------------------------
(* Sequences *)

Range(s) == {s[i] : i \in 1..Len(s)}

\* The sum of the entries of s that have one of the given values.
RECURSIVE SumOfValues(_, _)
SumOfValues(values, s) ==
    IF values = {} THEN 0
    ELSE LET v == CHOOSE x \in values : TRUE
         IN  v * Cardinality({i \in 1..Len(s) : s[i] = v})
                + SumOfValues(values \ {v}, s)

\* The exact sum of a column of whole numbers.
SumSeq(s) == SumOfValues(Range(s), s)

\* Series.mean() of a column of whole numbers: NaN on an empty Series, else
\* the exact sum divided by the count in float64.
SeriesMean(col) ==
    IF Len(col) = 0 THEN NaN ELSE FloatDiv(SumSeq(col), Len(col))

\* Series.min() / Series.max() of a float column: NaN on an empty Series.
SeriesMin(col) ==
    IF Len(col) = 0 THEN NaN
    ELSE CHOOSE x \in Range(col) : \A y \in Range(col) : ~FloatLess(y, x)

SeriesMax(col) ==
    IF Len(col) = 0 THEN NaN
    ELSE CHOOSE x \in Range(col) : \A y \in Range(col) : ~FloatLess(x, y)

\* frame[mask]: the rows whose mask entry is True, in frame order, each
\* keeping its index label.  mask is the boolean Series, one entry per row.
BoolIndex(frame, mask) ==
    LET kept == {i \in 1..Len(frame) : mask[i]}
    IN  [j \in 1..Cardinality(kept) |->
            frame[CHOOSE i \in kept :
                      Cardinality({h \in kept : h <= i}) = j]]

Column(frame, field) == [i \in 1..Len(frame) |-> frame[i][field]]

AllSeqs(S, n) == UNION {[1..k -> S] : k \in 0..n}

----------------------------------------------------------------------------
(* Records and Datasets *)

\* One row of data/loan_data_cleaned.parquet, restricted to the columns the
\* script reads.  loan_amnt is the float amtNum/amtDen.
Record(amtNum, amtDen, score, intent, status, rate, income) ==
    [loan_amnt     |-> Float(amtNum, amtDen),
     credit_score  |-> score,
     loan_intent   |-> intent,
     loan_status   |-> status,
     loan_int_rate |-> rate,
     person_income |-> income]

\* The loan purposes, in Python's string order (the order groupby sorts by).
PurposeOrder == <<"EDUCATION", "MEDICAL", "VENTURE">>

PurposeRank(p) == CHOOSE i \in 1..Len(PurposeOrder) : PurposeOrder[i] = p

\* Rows the enumerated Datasets are drawn from.
Records ==
    { Record(1000, 1, 600, "MEDICAL",   1, 11, 50000),
      Record(1000, 1, 601, "EDUCATION", 0, 14, 60001),
      Record(2003, 2, 600, "EDUCATION", 1, 12, 70000),
      Record(2003, 2, 601, "MEDICAL",   0, 12, 75000),
      Record(1001, 1, 600, "MEDICAL",   0, 13, 40000),
      Record(1001, 1, 601, "EDUCATION", 1, 15, 40001),
      Record(1000, 1, 600, "EDUCATION", 0, 10, 30000),
      Record(1001, 1, 601, "MEDICAL",   1, 16, 80000) }

\* The Dataset of the spec's scenario: credit scores 600..800 with outcomes
\* 1,0,1,0,0.
ScenarioRecords ==
    << Record(1000, 1, 600, "EDUCATION", 1, 11, 50000),
       Record(1000, 1, 650, "EDUCATION", 0, 11, 50000),
       Record(1000, 1, 700, "EDUCATION", 1, 11, 50000),
       Record(1000, 1, 750, "EDUCATION", 0, 11, 50000),
       Record(1000, 1, 800, "EDUCATION", 0, 11, 50000) >>

\* A Dataset whose means are not float64 values: 80 loans, 23 defaults
\* (default rate 28.75%), interest rates averaging 11.05.
RoundingRecords ==
    [i \in 1..80 |->
        Record(1000, 1, 600, "MEDICAL",
               IF i <= 23 THEN 1 ELSE 0,
               IF i <= 4 THEN 12 ELSE 11,
               50000)]

\* pd.read_parquet: a DataFrame with the default RangeIndex 0..n-1.
DataFrame(records) ==
    [i \in 1..Len(records) |->
        [index         |-> i - 1,
         loan_amnt     |-> records[i].loan_amnt,
         credit_score  |-> records[i].credit_score,
         loan_intent   |-> records[i].loan_intent,
         loan_status   |-> records[i].loan_status,
         loan_int_rate |-> records[i].loan_int_rate,
         person_income |-> records[i].person_income]]

\* Python's None in a variable that otherwise holds a DataFrame.
None == [state |-> "none", rows |-> <<>>]

\* A global the current run has not assigned yet.
Unbound == [state |-> "unbound", rows |-> <<>>]

Frame(rows) == [state |-> "frame", rows |-> rows]

ReportText == "LOAN ANALYSIS REPORT"

ReportFallback == "Analysis report not found."

----------------------------------------------------------------------------
(* State *)

VARIABLES
    pc,                 \* the statement the running script is at
    files,              \* the four files under data/: readable or not
    cache,              \* st.cache_data: memoized results of the loaders
    df,                 \* global df
    summary,            \* global summary
    default_rates,      \* global default_rates
    report,             \* global report
    interacted,         \* the user has changed a widget in this session
    loan_status,        \* selectbox "Loan Status"
    loan_range,         \* slider "Loan Amount Range ($)"
    credit_range,       \* slider "Credit Score Range"
    all_purposes,       \* df['loan_intent'].unique()
    selected_purposes,  \* multiselect "Loan Purpose"
    filtered_df,        \* global filtered_df
    kpi,                \* the four metric cards
    default_by_purpose, \* the grouped Series behind the bar chart
    rendered            \* elements the current run has put on the page

vars == <<pc, files, cache, df, summary, default_rates, report, interacted,
          loan_status, loan_range, credit_range, all_purposes,
          selected_purposes, filtered_df, kpi, default_by_purpose, rendered>>

widgets == <<loan_status, loan_range, credit_range, all_purposes,
             selected_purposes>>

outputs == <<filtered_df, kpi, default_by_purpose>>

NoKpi ==
    [shown |-> FALSE, total_loans |-> 0,
     default_rate      |-> FormatFixed1(NaN),
     avg_interest_rate |-> FormatFixed1(NaN),
     avg_income        |-> FormatFixed0(NaN)]

EmptyCache ==
    [data          |-> [hit |-> FALSE, value |-> None],
     summary       |-> [hit |-> FALSE, value |-> "none"],
     default_rates |-> [hit |-> FALSE, value |-> "none"],
     report        |-> [hit |-> FALSE, value |-> ""]]

\* The state of the script's globals and of the page when a run starts.
FreshRun ==
    /\ df = Unbound
    /\ summary = "unbound"
    /\ default_rates = "unbound"
    /\ report = "unbound"
    /\ loan_status = "unbound"
    /\ loan_range = <<0, 0>>
    /\ credit_range = <<0, 0>>
    /\ all_purposes = <<>>
    /\ selected_purposes = {}
    /\ filtered_df = <<>>
    /\ kpi = NoKpi
    /\ default_by_purpose = <<>>
    /\ rendered = {}

Datasets == AllSeqs(Records, MaxRows)

\* A new session: nothing memoized, no widget touched, the files on disk in
\* any combination of readable and missing or unparsable.
Init ==
    /\ pc = "load_data"
    /\ files \in [data          : [readable : BOOLEAN, records : Datasets],
                  summary       : BOOLEAN,
                  default_rates : BOOLEAN,
                  report        : BOOLEAN]
    /\ ~files.data.readable => files.data.records = <<>>
    /\ cache = EmptyCache
    /\ interacted = FALSE
    /\ FreshRun

----------------------------------------------------------------------------
(* Loaders, lines 80-116 *)

\* The body of load_data: the DataFrame, or None when read_parquet raises.
load_data(file) ==
    IF file.readable THEN Frame(DataFrame(file.records)) ELSE None

\* The body of load_summary and of load_default_rates.
load_table(readable) == IF readable THEN "frame" ELSE "none"

\* The body of load_report: the text, or the fallback string when open or
\* read raises.
load_report(readable) == IF readable THEN ReportText ELSE ReportFallback

\* st.cache_data: the memoized value on a hit, else the computed one.
Cached(entry, computed) == IF entry.hit THEN entry.value ELSE computed

Memo(value) == [hit |-> TRUE, value |-> value]

\* df = load_data(); the st.success / st.error and st.info calls made inside
\* the function are replayed on a cache hit.
LoadData ==
    /\ pc = "load_data"
    /\ LET result == Cached(cache.data, load_data(files.data)) IN
        /\ df' = result
        /\ cache' = [cache EXCEPT !.data = Memo(result)]
        /\ rendered' = rendered \cup
              (IF result.state = "frame" THEN {"load_success"}
               ELSE {"load_error", "load_info"})
    /\ pc' = "load_summary"
    /\ UNCHANGED <<files, summary, default_rates, report, interacted,
                   widgets, outputs>>

\* summary = load_summary()
LoadSummary ==
    /\ pc = "load_summary"
    /\ LET result == Cached(cache.summary, load_table(files.summary)) IN
        /\ summary' = result
        /\ cache' = [cache EXCEPT !.summary = Memo(result)]
    /\ pc' = "load_default_rates"
    /\ UNCHANGED <<files, df, default_rates, report, interacted, widgets,
                   outputs, rendered>>

\* default_rates = load_default_rates()
LoadDefaultRates ==
    /\ pc = "load_default_rates"
    /\ LET result == Cached(cache.default_rates,
                            load_table(files.default_rates)) IN
        /\ default_rates' = result
        /\ cache' = [cache EXCEPT !.default_rates = Memo(result)]
    /\ pc' = "load_report"
    /\ UNCHANGED <<files, df, summary, report, interacted, widgets, outputs,
                   rendered>>

\* report = load_report()
LoadReport ==
    /\ pc = "load_report"
    /\ LET result == Cached(cache.report, load_report(files.report)) IN
        /\ report' = result
        /\ cache' = [cache EXCEPT !.report = Memo(result)]
    /\ pc' = "guard"
    /\ UNCHANGED <<files, df, summary, default_rates, interacted, widgets,
                   outputs, rendered>>

\* The script without its guard: execution goes on to the sidebar.
StopGuardMissing ==
    /\ pc = "guard"
    /\ pc' = "sidebar"
    /\ UNCHANGED <<files, cache, df, summary, default_rates, report,
                   interacted, widgets, outputs, rendered>>

\* if df is None: st.stop()
StopGuard ==
    /\ pc = "guard"
    /\ pc' = IF df.state = "none" THEN "stopped" ELSE "sidebar"
    /\ UNCHANGED <<files, cache, df, summary, default_rates, report,
                   interacted, widgets, outputs, rendered>>

----------------------------------------------------------------------------
(* Sidebar filters, lines 124-147 *)

StatusOptions == {"All", "Defaults Only", "Non-Defaults Only"}

\* Series.unique(): the distinct values in order of first appearance.
unique(col) ==
    BoolIndex(col, [i \in 1..Len(col) |->
                       \A h \in 1..(i - 1) : col[h] # col[i]])

\* st.selectbox: the first option until the user picks another.
Selectbox(options, first) == IF interacted THEN options ELSE {first}

\* st.slider(label, lo, hi, (lo, hi)): a pair a <= b within lo..hi, the
\* full range until the user moves a handle.  With lo = hi the only value
\* is (lo, lo).
Slider(lo, hi) ==
    IF interacted
    THEN {r \in (lo..hi) \X (lo..hi) : r[1] <= r[2]}
    ELSE {<<lo, hi>>}

\* st.multiselect(label, options, default=options): a subset of the
\* options, all of them until the user changes the selection.
Multiselect(options) ==
    IF interacted THEN SUBSET Range(options) ELSE {Range(options)}

\* The sidebar block.  On a zero-row df, min() is NaN and int(NaN) raises
\* ValueError after the selectbox has been drawn: the run ends there.
Sidebar ==
    /\ pc = "sidebar"
    /\ \E status \in Selectbox(StatusOptions, "All") :
        /\ loan_status' = status
        /\ LET amounts == Column(df.rows, "loan_amnt") IN
           IF SeriesMin(amounts).nan
           THEN /\ pc' = "crashed"
                /\ UNCHANGED <<loan_range, credit_range, all_purposes,
                               selected_purposes, rendered>>
           ELSE LET loan_min   == IntOf(SeriesMin(amounts))
                    loan_max   == IntOf(SeriesMax(amounts))
                    scores     == Range(Column(df.rows, "credit_score"))
                    credit_min == CHOOSE x \in scores : \A y \in scores : x <= y
                    credit_max == CHOOSE x \in scores : \A y \in scores : x >= y
                    purposes   == unique(Column(df.rows, "loan_intent"))
                IN  /\ loan_range' \in Slider(loan_min, loan_max)
                    /\ credit_range' \in Slider(credit_min, credit_max)
                    /\ all_purposes' = purposes
                    /\ selected_purposes' \in Multiselect(purposes)
                    /\ rendered' = rendered \cup {"sidebar_filters", "data_info"}
                    /\ pc' = "filter"
    /\ UNCHANGED <<files, cache, df, summary, default_rates, report,
                   interacted, outputs>>

----------------------------------------------------------------------------
(* Apply filters, lines 152-165 *)

\* An amount test that reorders the endpoints of an inverted range.
AmountInSortedRange(amount, range) ==
    IF range[1] <= range[2]
    THEN FloatGE(amount, range[1]) /\ FloatLE(amount, range[2])
    ELSE FloatGE(amount, range[2]) /\ FloatLE(amount, range[1])

\* (loan_amnt >= range[0]) & (loan_amnt <= range[1]) for one row.
AmountInRange(amount, range) ==
    FloatGE(amount, range[1]) /\ FloatLE(amount, range[2])

\* A score test whose upper end is exclusive.
ScoreBelowMax(score, range) == score >= range[1] /\ score < range[2]

\* (credit_score >= range[0]) & (credit_score <= range[1]) for one row.
ScoreInRange(score, range) == score >= range[1] /\ score <= range[2]

\* A membership test that reads an empty selection as "all purposes".
isin_or_all(value, values) == values = {} \/ value \in values

\* Series.isin(values) for one row.
isin(value, values) == value \in values

\* The if / elif on loan_status, lines 154-157.
StatusFilter(frame, status) ==
    IF status = "Defaults Only"
    THEN BoolIndex(frame, [i \in 1..Len(frame) |-> frame[i].loan_status = 1])
    ELSE IF status = "Non-Defaults Only"
    THEN BoolIndex(frame, [i \in 1..Len(frame) |-> frame[i].loan_status = 0])
    ELSE frame

\* The boolean mask of lines 159-165.
RangeMask(frame, loanRange, creditRange, purposes) ==
    [i \in 1..Len(frame) |->
        /\ AmountInRange(frame[i].loan_amnt, loanRange)
        /\ ScoreInRange(frame[i].credit_score, creditRange)
        /\ isin(frame[i].loan_intent, purposes)]

\* filtered_df as lines 152-165 compute it from a copy of df.
apply_filters(frame, status, loanRange, creditRange, purposes) ==
    LET byStatus == StatusFilter(frame, status)
    IN  BoolIndex(byStatus,
                  RangeMask(byStatus, loanRange, creditRange, purposes))

\* A filter that drops the rows from df itself instead of from a copy.
ApplyFiltersInPlace ==
    /\ pc = "filter"
    /\ filtered_df' = apply_filters(df.rows, loan_status, loan_range,
                                    credit_range, selected_purposes)
    /\ df' = Frame(filtered_df')
    /\ pc' = "kpi"
    /\ UNCHANGED <<files, cache, summary, default_rates, report,
                   interacted, widgets, kpi, default_by_purpose, rendered>>

ApplyFilters ==
    /\ pc = "filter"
    /\ filtered_df' = apply_filters(df.rows, loan_status, loan_range,
                                    credit_range, selected_purposes)
    /\ pc' = "kpi"
    /\ UNCHANGED <<files, cache, df, summary, default_rates, report,
                   interacted, widgets, kpi, default_by_purpose, rendered>>

----------------------------------------------------------------------------
(* KPI metrics, lines 170-202 *)

\* The four f-strings of the metric cards.
metric_cards(frame) ==
    [shown       |-> TRUE,
     total_loans |-> Len(frame),
     default_rate |->
        FormatFixed1(Times100(SeriesMean(Column(frame, "loan_status")))),
     avg_interest_rate |->
        FormatFixed1(SeriesMean(Column(frame, "loan_int_rate"))),
     avg_income |->
        FormatFixed0(SeriesMean(Column(frame, "person_income")))]

KpiMetrics ==
    /\ pc = "kpi"
    /\ kpi' = metric_cards(filtered_df)
    /\ rendered' = rendered \cup {"kpi_cards"}
    /\ pc' = "tab1"
    /\ UNCHANGED <<files, cache, df, summary, default_rates, report,
                   interacted, widgets, filtered_df, default_by_purpose>>

----------------------------------------------------------------------------
(* Tab 1: charts, lines 212-252 *)

RECURSIVE SortKeys(_)
SortKeys(keys) ==
    IF keys = {} THEN <<>>
    ELSE LET least == CHOOSE k \in keys :
                         \A j \in keys : PurposeRank(k) <= PurposeRank(j)
         IN  <<least>> \o SortKeys(keys \ {least})

\* Group keys in order of first appearance, as groupby(sort=False) gives.
group_keys_first_seen(frame) == unique(Column(frame, "loan_intent"))

\* Group keys of a groupby that reports every known category, observed or
\* not.
group_keys_unobserved(frame) == SortKeys(Range(PurposeOrder))

\* The index of groupby('loan_intent'): the values present in the frame,
\* sorted (sort=True is the default).
group_keys(frame) == SortKeys(Range(Column(frame, "loan_intent")))

\* ['loan_status'].mean() of one group.
group_mean(frame, key) ==
    SeriesMean(Column(
        BoolIndex(frame, [i \in 1..Len(frame) |-> frame[i].loan_intent = key]),
        "loan_status"))

\* filtered_df.groupby('loan_intent')['loan_status'].mean() * 100
groupby_mean_pct(frame) ==
    LET keys == group_keys(frame)
    IN  [i \in 1..Len(keys) |->
            [key |-> keys[i], value |-> Times100(group_mean(frame, keys[i]))]]

Tab1Charts ==
    /\ pc = "tab1"
    /\ default_by_purpose' = groupby_mean_pct(filtered_df)
    /\ rendered' = rendered \cup
          {"purpose_chart", "credit_histogram", "income_scatter"}
    /\ pc' = "tab2"
    /\ UNCHANGED <<files, cache, df, summary, default_rates, report,
                   interacted, widgets, filtered_df, kpi>>

----------------------------------------------------------------------------
(* Tabs 2-4 and footer, lines 255-359 *)

Tab2AnalysisFiles ==
    /\ pc = "tab2"
    /\ rendered' = rendered
          \cup (IF default_rates # "none"
                THEN {"rates_table", "rates_chart", "download_default_rates"}
                ELSE {})
          \cup (IF summary # "none" THEN {"summary_table"} ELSE {})
          \cup {"download_cleaned_data", "download_report"}
    /\ pc' = "tab3"
    /\ UNCHANGED <<files, cache, df, summary, default_rates, report,
                   interacted, widgets, outputs>>

Tab3DataExplorer ==
    /\ pc = "tab3"
    /\ rendered' = rendered \cup {"data_explorer", "column_statistics"}
    /\ pc' = "tab4"
    /\ UNCHANGED <<files, cache, df, summary, default_rates, report,
                   interacted, widgets, outputs>>

Tab4Report ==
    /\ pc = "tab4"
    /\ rendered' = rendered \cup {"report_text_area", "key_insights", "footer"}
    /\ pc' = "done"
    /\ UNCHANGED <<files, cache, df, summary, default_rates, report,
                   interacted, widgets, outputs>>

----------------------------------------------------------------------------
(* The session *)

\* Positions of a run at which the sidebar widgets are on the page: the run
\* is inside the sidebar block, where the selectbox is drawn first, or past
\* it.
WidgetsDrawn ==
    {"sidebar", "filter", "kpi", "tab1", "tab2", "tab3", "tab4", "done",
     "crashed"}

\* A widget change, or a manual rerun, at any moment: a run in progress is
\* abandoned at its next st.* call, a finished one stays as it is, and
\* Streamlit executes the script again from the top with fresh globals and
\* an empty page; the loader results memoized so far and the files stay.  A
\* widget can have been changed once a run has drawn it.
Rerun ==
    /\ pc' = "load_data"
    /\ interacted' = (interacted \/ pc \in WidgetsDrawn)
    /\ df' = Unbound
    /\ summary' = "unbound"
    /\ default_rates' = "unbound"
    /\ report' = "unbound"
    /\ loan_status' = "unbound"
    /\ loan_range' = <<0, 0>>
    /\ credit_range' = <<0, 0>>
    /\ all_purposes' = <<>>
    /\ selected_purposes' = {}
    /\ filtered_df' = <<>>
    /\ kpi' = NoKpi
    /\ default_by_purpose' = <<>>
    /\ rendered' = {}
    /\ UNCHANGED <<files, cache>>

Next ==
    \/ LoadData
    \/ LoadSummary
    \/ LoadDefaultRates
    \/ LoadReport
    \/ StopGuard
    \/ Sidebar
    \/ ApplyFilters
    \/ KpiMetrics
    \/ Tab1Charts
    \/ Tab2AnalysisFiles
    \/ Tab3DataExplorer
    \/ Tab4Report
    \/ Rerun

Spec == Init /\ [][Next]_vars

----------------------------------------------------------------------------
(* The filter and the aggregates on their own: apply(dataset, criteria) for *)
(* any criteria, well-formed or not, then the KPI cards and the grouping.   *)

\* Range endpoints offered to the filter, in either order.
AmountRanges == {1000, 1001, 1002} \X {1000, 1001, 1002}

ScoreRanges == {600, 601} \X {600, 601}

PurposeSelections == SUBSET Range(PurposeOrder)

\* A run of the script stopped right before line 152, df loaded.
AtFilter(records) ==
    /\ pc = "filter"
    /\ files = [data |-> [readable |-> TRUE, records |-> records],
                summary |-> TRUE, default_rates |-> TRUE, report |-> TRUE]
    /\ df = Frame(DataFrame(records))
    /\ cache = [data          |-> Memo(df),
                summary       |-> Memo("frame"),
                default_rates |-> Memo("frame"),
                report        |-> Memo(ReportText)]
    /\ summary = "frame"
    /\ default_rates = "frame"
    /\ report = ReportText
    /\ interacted = TRUE
    /\ all_purposes = unique(Column(df.rows, "loan_intent"))
    /\ filtered_df = <<>>
    /\ kpi = NoKpi
    /\ default_by_purpose = <<>>
    /\ rendered = {"load_success", "sidebar_filters", "data_info"}

InitApply ==
    \/ /\ \E records \in Datasets : AtFilter(records)
       /\ loan_status \in StatusOptions
       /\ loan_range \in AmountRanges
       /\ credit_range \in ScoreRanges
       /\ selected_purposes \in PurposeSelections
    \/ /\ AtFilter(ScenarioRecords)
       /\ loan_status = "All"
       /\ loan_range = <<1000, 1000>>
       /\ credit_range = <<650, 800>>
       /\ selected_purposes = {"EDUCATION"}
    \/ /\ AtFilter(RoundingRecords)
       /\ loan_status = "All"
       /\ loan_range = <<1000, 1000>>
       /\ credit_range = <<600, 600>>
       /\ selected_purposes = {"MEDICAL"}

NextApply ==
    \/ ApplyFilters
    \/ KpiMetrics
    \/ Tab1Charts

SpecApply == InitApply /\ [][NextApply]_vars

----------------------------------------------------------------------------
(* Properties *)

\* The run has executed lines 152-165.
Filtered == pc \in {"kpi", "tab1", "tab2", "tab3", "tab4", "done"}

\* The run has executed line 219.
Grouped == pc \in {"tab2", "tab3", "tab4", "done"}

Inverted(range) == range[1] > range[2]

\* The four predicates of a FilterCriteria, read off the spec.
StatusMatches(row) ==
    \/ loan_status = "All"
    \/ loan_status = "Defaults Only" /\ row.loan_status = 1
    \/ loan_status = "Non-Defaults Only" /\ row.loan_status = 0

AmountWithin(row) ==
    /\ loan_range[1] * row.loan_amnt.den <= row.loan_amnt.num
    /\ row.loan_amnt.num <= loan_range[2] * row.loan_amnt.den

ScoreWithin(row) ==
    credit_range[1] <= row.credit_score /\ row.credit_score <= credit_range[2]

PurposeSelected(row) == row.loan_intent \in selected_purposes

Scenario == files.data.records = ScenarioRecords

\* C1: after the filter step the view holds exactly the rows of the Dataset
\* that satisfy the status, loan-amount, credit-score and purpose predicates
\* together, each once and in Dataset order; on the scenario Dataset with
\* creditRange = [650,800] the count is 4 and the default rate 25.0%.
C1_ViewIsConjunction ==
    Filtered =>
        /\ \A row \in Range(df.rows) :
              row \in Range(filtered_df) <=>
                 /\ StatusMatches(row)
                 /\ AmountWithin(row)
                 /\ ScoreWithin(row)
                 /\ PurposeSelected(row)
        /\ Range(filtered_df) \subseteq Range(df.rows)
        /\ \A i, j \in 1..Len(filtered_df) :
              i < j => filtered_df[i].index < filtered_df[j].index
        /\ (Scenario /\ kpi.shown) =>
              /\ kpi.total_loans = 4
              /\ kpi.default_rate = [text |-> "digits", scaled |-> 250]

\* C1 witness: the scenario has been filtered and its cards drawn: the row
\* with score 600 is out, the other four are in.
C1_Witness ==
    /\ Scenario
    /\ pc = "tab1"
    /\ Len(filtered_df) = 4
    /\ filtered_df[1].credit_score = 650

\* C2: on the first run, where every widget still has its default (status
\* All, both sliders at the bounds computed from df, all purposes selected),
\* the view equals the whole Dataset in its original order.
C2_AllOpenKeepsDataset ==
    (Filtered /\ ~interacted) => filtered_df = df.rows

\* C3: an unreadable primary file makes load_data return None without
\* raising and shows the error; while df is None the run gets no further
\* than the guard, where it stops: no filter, card, chart, table or
\* download is produced.
C3_AbsentDatasetHalts ==
    /\ (~files.data.readable /\ pc # "load_data") =>
          /\ df = None
          /\ pc # "crashed"
          /\ "load_error" \in rendered
    /\ df.state = "none" =>
          /\ pc \in {"load_summary", "load_default_rates", "load_report",
                     "guard", "stopped"}
          /\ filtered_df = <<>>
          /\ ~kpi.shown
          /\ default_by_purpose = <<>>
          /\ rendered \subseteq {"load_error", "load_info"}

\* C3 witness: the session has halted on an unreadable primary file.
C3_Witness ==
    /\ pc = "stopped"
    /\ ~files.data.readable
    /\ "load_error" \in rendered

\* C4: when an auxiliary file cannot be loaded the session is not halted
\* and, once the page is complete, every element that depends on that
\* artifact is absent from it: the summary table; the default-rate table,
\* chart and download; the report text and the report download.
C4_AbsentArtifactOmitted ==
    /\ pc = "stopped" => df.state = "none"
    /\ pc \in {"guard", "stopped", "sidebar", "crashed"} \cup
             {"filter", "kpi", "tab1", "tab2", "tab3", "tab4", "done"} =>
          /\ ~files.summary => summary = "none"
          /\ ~files.default_rates => default_rates = "none"
    /\ pc = "done" =>
          /\ ~files.summary => "summary_table" \notin rendered
          /\ ~files.default_rates =>
                rendered \cap {"rates_table", "rates_chart",
                               "download_default_rates"} = {}
          /\ ~files.report =>
                rendered \cap {"report_text_area", "download_report"} = {}

\* The distinct purposes of the view, and the rows of one purpose.
ViewPurposes == {row.loan_intent : row \in Range(filtered_df)}

ViewRows(purpose) == {row \in Range(filtered_df) : row.loan_intent = purpose}

ViewDefaults(purpose) == {row \in ViewRows(purpose) : row.loan_status = 1}

\* Position in the view of the first row of a purpose.
FirstSeen(purpose) ==
    CHOOSE i \in 1..Len(filtered_df) :
        /\ filtered_df[i].loan_intent = purpose
        /\ \A j \in 1..(i - 1) : filtered_df[j].loan_intent # purpose

\* C5 as stated: the keys of the grouped aggregate are the purposes present
\* in the view, and each value is the mean outcome of its rows, in [0,1].
C5_GroupedMeanInUnitInterval ==
    Grouped =>
        /\ {default_by_purpose[i].key : i \in DOMAIN default_by_purpose}
              = ViewPurposes
        /\ \A i \in DOMAIN default_by_purpose :
              LET entry == default_by_purpose[i] IN
              /\ ~entry.value.nan
              /\ entry.value.num * Cardinality(ViewRows(entry.key))
                    = Cardinality(ViewDefaults(entry.key)) * entry.value.den
              /\ 0 <= entry.value.num
              /\ entry.value.num <= entry.value.den

\* C5 amended: the keys of the grouped aggregate are exactly the purposes
\* present in the view, each once, and each value is 100 times the mean
\* outcome of the rows of that purpose as float64 computes it: a percentage
\* in [0,100] that differs from the exact 100 * mean by at most 114 units
\* of 2^-52 (one rounding of the mean, one of the product).
C5_GroupedMeanPercent ==
    Grouped =>
        /\ {default_by_purpose[i].key : i \in DOMAIN default_by_purpose}
              = ViewPurposes
        /\ Len(default_by_purpose) = Cardinality(ViewPurposes)
        /\ \A i \in DOMAIN default_by_purpose :
              LET entry == default_by_purpose[i] IN
              /\ ~entry.value.nan
              /\ entry.value.num * Cardinality(ViewRows(entry.key))
                    = 100 * Cardinality(ViewDefaults(entry.key))
                          * entry.value.den
              /\ entry.value.err <= 114 * entry.value.den
              /\ -entry.value.err <= 114 * entry.value.den
              /\ entry.value.err # 0 => entry.value.exp >= 52
              /\ 0 <= entry.value.num
              /\ entry.value.num = 0 => entry.value.err = 0
              /\ entry.value.num <= 100 * entry.value.den
              /\ entry.value.num = 100 * entry.value.den
                    => entry.value.err = 0

\* C5 witness: a purpose of the Dataset has no row in the view and is not
\* reported, while a reported purpose has a value above 1.
C5_Witness ==
    /\ Grouped
    /\ \E row \in Range(df.rows) : row.loan_intent \notin ViewPurposes
    /\ \E i \in DOMAIN default_by_purpose :
          default_by_purpose[i].value.num > default_by_purpose[i].value.den

\* C6 as stated: the keys of the grouped aggregate come in first-seen order
\* of the view.
C6_KeysInFirstSeenOrder ==
    Grouped =>
        \A i, j \in DOMAIN default_by_purpose :
            i < j => FirstSeen(default_by_purpose[i].key)
                        < FirstSeen(default_by_purpose[j].key)

\* C6 amended: the keys of the grouped aggregate come in ascending order of
\* the purpose name, whatever the order of the rows in the view.
C6_KeysInSortedOrder ==
    Grouped =>
        \A i, j \in DOMAIN default_by_purpose :
            i < j => PurposeRank(default_by_purpose[i].key)
                        < PurposeRank(default_by_purpose[j].key)

\* C6 witness: the view starts with a MEDICAL row followed by an EDUCATION
\* row, and both are reported.
C6_Witness ==
    /\ Grouped
    /\ Len(filtered_df) >= 2
    /\ filtered_df[1].loan_intent = "MEDICAL"
    /\ filtered_df[2].loan_intent = "EDUCATION"
    /\ Len(default_by_purpose) = 2

\* C7: when the view is empty the KPI block shows a distinct no-data element
\* and no card carries the text the number format makes of NaN.
C7_EmptyViewShownDistinctly ==
    (kpi.shown /\ filtered_df = <<>>) =>
        /\ "no_data_notice" \in rendered
        /\ kpi.default_rate.text # "nan"
        /\ kpi.avg_interest_rate.text # "nan"
        /\ kpi.avg_income.text # "nan"

\* C8: with no purpose selected the view is empty, whatever the status and
\* the two ranges.
C8_EmptySelectionEmptyView ==
    (Filtered /\ selected_purposes = {}) => filtered_df = <<>>

\* C8 witness: the filter has run with no purpose selected on a Dataset
\* with a row that passes the status and both range predicates.
C8_Witness ==
    /\ Filtered
    /\ selected_purposes = {}
    /\ \E row \in Range(df.rows) :
          StatusMatches(row) /\ AmountWithin(row) /\ ScoreWithin(row)

\* C9: with an inverted loan-amount or credit-score range, or with a
\* non-empty selection of purposes none of which occurs in the Dataset, the
\* filter step completes and the view is empty.
C9_MalformedCriteriaEmptyView ==
    (\/ Inverted(loan_range)
     \/ Inverted(credit_range)
     \/ /\ selected_purposes # {}
        /\ selected_purposes \cap Range(all_purposes) = {})
    => /\ pc # "crashed"
       /\ Filtered => filtered_df = <<>>

\* C9 witness: the filter has run with an inverted loan-amount range on a
\* Dataset with a row that passes the other three predicates and lies
\* between the two endpoints.
C9_Witness ==
    /\ Filtered
    /\ Inverted(loan_range)
    /\ \E row \in Range(df.rows) :
          /\ StatusMatches(row) /\ ScoreWithin(row) /\ PurposeSelected(row)
          /\ loan_range[2] * row.loan_amnt.den <= row.loan_amnt.num
          /\ row.loan_amnt.num <= loan_range[1] * row.loan_amnt.den

\* C10: once the primary Dataset is memoized no step changes it, and every
\* step leaves the script's df, when bound to a DataFrame, equal to the
\* memoized load result.
C10_DatasetNeverChanges ==
    [][/\ cache.data.hit => cache'.data = cache.data
       /\ df'.state = "frame" => df' = cache'.data.value
       /\ cache'.data.hit => cache'.data.value = load_data(files.data)]_vars

\* C10 witness: a later run of the session has filtered rows out of the
\* view.
C10_Witness ==
    /\ interacted
    /\ pc = "done"
    /\ Len(filtered_df) < Len(df.rows)
    /\ df = cache.data.value

=============================================================================
